---- MODULE Spec2Model ----
(***************************************************************************)
(* Descriptor resolution and caching of tk-core's shotgun_deploy package:  *)
(* the instance cache of IODescriptorBase.__new__, the uploaded pipeline   *)
(* configuration backend, the path backend, manifest loading and           *)
(* latest-version lookup; the cache-path functions of paths.py; and the    *)
(* metrics dispatch queue of tank.util with its worker threads.            *)
(***************************************************************************)
EXTENDS Integers, Sequences, FiniteSets, TLC

(***************************************************************************)
(* Bounds of the model.                                                    *)
(***************************************************************************)
\* descriptor objects the heap may hold
MaxObjs == 2
\* threads that call a constructor at the same time, and calls per thread
NumThreads == 2
MaxCalls == 2
\* the largest 'workers' argument of start_dispatching, the worker threads a
\* process may start in all, and the metrics a queue may hold
MaxWorkersArg == 2
MaxStarted == 3
MaxQueued == 2
\* the worker threads started where their run loops are followed step by
\* step
MaxRunning == 2
\* the last tick of the wall clock
MaxClock == 3

(***************************************************************************)
(* Python values.  None is the string "None"; an attribute that was never  *)
(* assigned is Unset.  Every scalar of a location dict is kept as the text *)
(* repr() gives it.                                                        *)
(***************************************************************************)
None == "None"
Unset == "<unset>"

Uploaded == "IODescriptorUploadedConfig"
Path == "IODescriptorPath"
\* a backend of the repository that implements the whole descriptor contract
OtherBackend == "OtherBackend"
Classes == {Uploaded, Path, OtherBackend}

Roots == {"/cache1", "/cache2"}
Conns == {"sgA", "sgB"}

(***************************************************************************)
(* A location dict is the sequence of its <<key, value>> items in the      *)
(* order the keys were inserted.                                           *)
(***************************************************************************)
LocUp456 ==
  << <<"type", "shotgun_uploaded_configuration">>, <<"name", "primary">>,
     <<"project_id", "123">>, <<"attachment_id", "456">> >>
LocUp456Rev ==
  << <<"attachment_id", "456">>, <<"project_id", "123">>,
     <<"name", "primary">>, <<"type", "shotgun_uploaded_configuration">> >>
LocUpNoProject ==
  << <<"type", "shotgun_uploaded_configuration">>, <<"name", "primary">>,
     <<"attachment_id", "456">> >>
LocUpNoAttachment ==
  << <<"type", "shotgun_uploaded_configuration">>, <<"name", "primary">>,
     <<"project_id", "123">> >>
LocOther ==
  << <<"type", "app_store">>, <<"name", "tk-app">>, <<"version", "v1">> >>
LocDicts == {LocUp456, LocUp456Rev, LocUpNoProject, LocUpNoAttachment, LocOther}

(***************************************************************************)
(* A path string is the sequence of its tokens: a separator ("/" or the    *)
(* backslash), ".", "..", a drive ("d:"), a variable reference ("$APPS"),  *)
(* a name, or a dot followed by a name (".app").  So "/tmp/foo/bar" is     *)
(* <<"/", "tmp", "/", "foo", "/", "bar">>.  A 'name' of a path location    *)
(* dict is a string of the same kind.                                      *)
(***************************************************************************)
PTmpFooBar == <<"/", "tmp", "/", "foo", "/", "bar">>
PDotted == <<"/", "tmp", "/", "foo", "/", "..", "/", "baz", "/", "app", ".v2", "/">>
PEnv == <<"$APPS", "/", "tk", ".app">>
PLinux == <<"/", "mnt", "/", ".", "/", "apps", "/", "tk">>
PMac == <<"/", "Volumes", "/", "apps", "/", "tk">>
PWin == <<"d:", "/", "foo", "\\", "bar", ".v2">>

LocPath == << <<"type", "path">>, <<"path", PTmpFooBar>> >>
LocPathNamed ==
  << <<"type", "path">>, <<"path", PDotted>>, <<"name", <<"my-app">> >> >>
LocPath3 ==
  << <<"type", "path">>, <<"linux_path", PEnv>>, <<"windows_path", PWin>>,
     <<"mac_path", PMac>> >>
LocPathBoth ==
  << <<"type", "path">>, <<"path", PDotted>>, <<"linux_path", PLinux>>,
     <<"name", <<>> >> >>
LocPathLinuxOnly == << <<"type", "path">>, <<"linux_path", PLinux>> >>
PathLocs == {LocPath, LocPathNamed, LocPath3, LocPathBoth, LocPathLinuxOnly}

Keys(loc) == {loc[i][1] : i \in DOMAIN loc}
\* location_dict.get(k): the value, or None when the key is absent
Get(loc, k) ==
  IF k \in Keys(loc)
    THEN loc[CHOOSE i \in DOMAIN loc : loc[i][1] = k][2]
    ELSE None
\* two dicts that compare equal in Python: the same key/value pairs
SameItems(a, b) == {a[i] : i \in DOMAIN a} = {b[i] : i \in DOMAIN b}

(***************************************************************************)
(* str(location_dict).  The interpreter (Python 2: "except Exception, e")  *)
(* keeps a dict of up to five keys in a table of eight slots and prints    *)
(* the items in slot order.  A key goes to the first free slot of its      *)
(* probe sequence, which starts at hash(key) & 7 and continues with        *)
(* i = 5*i + perturb + 1, perturb >>= 5.  Probes gives that sequence for   *)
(* the keys used here, computed from the interpreter's string hash.        *)
(***************************************************************************)
Slots == 0 .. 7
Probes ==
  [k \in {"type", "name", "project_id", "attachment_id", "version",
          "path", "linux_path", "mac_path", "windows_path"} |->
     CASE k = "type"          -> <<4, 1, 7, 4, 2, 6, 7, 6>>
       [] k = "name"          -> <<5, 7, 7, 6, 1, 4, 5, 6>>
       [] k = "project_id"    -> <<3, 3, 1, 2, 0, 3, 1, 1>>
       [] k = "attachment_id" -> <<4, 1, 2, 0, 3, 0, 0, 1>>
       [] k = "version"       -> <<3, 3, 5, 6, 3, 1, 5, 5>>
       [] k = "path"          -> <<1, 7, 2, 3, 1, 5, 5, 2>>
       [] k = "linux_path"    -> <<6, 5, 3, 0, 0, 4, 0, 4>>
       [] k = "mac_path"      -> <<1, 7, 7, 0, 2, 4, 6, 4>>
       [] k = "windows_path"  -> <<3, 3, 7, 7, 6, 6, 7, 1>>]

FreeSlot(table, k) ==
  LET p == Probes[k]
      i == CHOOSE n \in DOMAIN p :
             /\ table[p[n]] = <<>>
             /\ \A m \in 1 .. (n - 1) : table[p[m]] # <<>>
  IN p[i]

RECURSIVE BuildTable(_, _)
BuildTable(loc, n) ==
  IF n = 0
    THEN [s \in Slots |-> <<>>]
    ELSE LET t == BuildTable(loc, n - 1)
         IN [t EXCEPT ![FreeSlot(t, loc[n][1])] = loc[n]]

RECURSIVE Dump(_, _)
Dump(table, s) ==
  IF s \notin Slots
    THEN <<>>
    ELSE (IF table[s] = <<>> THEN <<>> ELSE <<table[s]>>) \o Dump(table, s + 1)

Str(loc) == Dump(BuildTable(loc, Len(loc)), 0)

\* cache_key = (bundle_cache_root, str(location_dict))
CacheKey(root, loc) == <<root, Str(loc)>>

(***************************************************************************)
(* State.                                                                  *)
(*   heap        the descriptor objects ever allocated; an object's        *)
(*               identity is its index                                     *)
(*   _instances  IODescriptorBase._instances: cache key -> object          *)
(*   disk        bundle folder -> what it holds (a folder that is not in   *)
(*               the domain does not exist)                                *)
(*   returned    history: the <<cache key, object>> pairs constructor      *)
(*               calls have returned to their callers                      *)
(*   last, prev  the most recent call and what it did, and the method call *)
(*               right before it                                           *)
(*   thr         per thread, where it is in a constructor call             *)
(*   platform    sys.platform of the process                               *)
(*   __instance  MetricsDispatchQueueSingleton.__instance (0: None)        *)
(*   queues      the metrics queue objects ever allocated                  *)
(*   workers     the worker threads ever started                           *)
(*   mthr        per thread, where it is in a MetricsDispatchQueueSingleton*)
(*               call                                                      *)
(*   mlast       the most recent call of a method of the queue             *)
(*   batch_size  _MetricsDispatchWorkerThread.DISPATCH_BATCH_SIZE, as a    *)
(*               worker reads it                                           *)
(*   logging     per thread, the log() call it is in                       *)
(*   hist        history: the metrics in the order their log() calls       *)
(*               completed, how often _get_metrics has returned each, and  *)
(*               the metrics in the order they were handed to _dispatch    *)
(*   dirs        the directories that exist on disk                        *)
(*   clock       the wall clock, in seconds                                *)
(*   plast       the most recent call of a function of paths.py            *)
(***************************************************************************)
VARIABLES heap, _instances, disk, returned, last, prev, thr, platform,
          __instance, queues, workers, mthr, mlast,
          batch_size, logging, hist,
          dirs, clock, plast

\* what the worker threads and the callers of log() add to the metrics state
runVars == <<batch_size, logging, hist>>

metricVars == <<__instance, queues, workers, mthr, mlast, runVars>>

descVars == <<heap, _instances, disk, returned, last, prev, thr, platform>>

\* the state the cache-path functions of paths.py work on
cacheVars == <<dirs, clock, plast>>

vars == <<descVars, metricVars, cacheVars>>

Threads == 1 .. NumThreads

\* a thread outside any call: calls counts the calls it has made, got is the
\* object its last call returned (0: none, or the call raised)
Idle(calls, got) ==
  [pc |-> "idle", cls |-> None, root |-> None, loc |-> <<>>, conn |-> None,
   key |-> <<>>, obj |-> 0, calls |-> calls, got |-> got]

\* an object as object.__new__ leaves it: no attribute assigned yet
NewObject(cls, key) ==
  [cls |-> cls, key |-> key, root |-> Unset, loc |-> <<>>, manifest |-> Unset,
   conn |-> Unset, name |-> Unset, project_id |-> Unset, attachment_id |-> Unset,
   path |-> Unset]

\* what a call did: its outcome, and the collaborator calls it made
\*   checks exists_local() calls      fetches download attempts
\*   reads  metadata files parsed     lookups remote find_one calls
\*   tmp    temporary archives written, unzips archives unpacked
Call(op, obj, arg, out, ret, created, n) ==
  [op |-> op, obj |-> obj, arg |-> arg, out |-> out, ret |-> ret, created |-> created,
   checks |-> n.checks, fetches |-> n.fetches, reads |-> n.reads,
   lookups |-> n.lookups, tmp |-> n.tmp, unzips |-> n.unzips]

Zero == [checks |-> 0, fetches |-> 0, reads |-> 0, lookups |-> 0, tmp |-> 0, unzips |-> 0]

NoCall == Call("none", 0, None, "none", None, 0, Zero)

MethodOps == {"get_manifest", "ensure_local", "download_local"}

\* a thread outside MetricsDispatchQueueSingleton(): calls counts the calls it
\* has made, got is the queue its last call returned (0: none yet)
NotCalling(calls, got) == [pc |-> "idle", calls |-> calls, got |-> got]

\* a call of a queue method: the queue, the argument, and the number of
\* worker threads the call started
QueueCall(op, q, arg, started) ==
  [op |-> op, queue |-> q, arg |-> arg, started |-> started, ret |-> <<>>]
NoQueueCall == QueueCall("none", 0, 0, 0)

\* the objects some caller holds a reference to
Held == {p[2] : p \in returned}

\* the metric objects a caller may log
Metrics == {"a", "b", "c"}

\* DISPATCH_BATCH_SIZE = 10
DISPATCH_BATCH_SIZE == 10

\* a thread outside log()
NoLog == [queue |-> 0, metric |-> None]

\* no call of paths.py yet, or the disk was changed behind it since
NoPathCall == [op |-> "none", args |-> <<>>, ret |-> <<>>, at |-> 0, since |-> -1]

\* the state of a process that runs on platform sys_platform, its workers
\* reading n as their DISPATCH_BATCH_SIZE
InitProcess(sys_platform, n) ==
  /\ platform = sys_platform
  /\ batch_size = n
  /\ logging = [t \in Threads |-> NoLog]
  /\ hist = [logged |-> <<>>, returned |-> [m \in Metrics |-> 0], handed |-> <<>>]
  /\ dirs = {}
  /\ clock = 0
  /\ plast = NoPathCall
  /\ __instance = 0
  /\ queues = <<>>
  /\ workers = <<>>
  /\ mthr = [t \in Threads |-> NotCalling(0, 0)]
  /\ mlast = NoQueueCall
  /\ heap = <<>>
  /\ _instances = [k \in {} |-> 0]
  /\ disk = [p \in {} |-> "absent"]
  /\ returned = {}
  /\ last = NoCall
  /\ prev = NoCall
  /\ thr = [t \in Threads |-> Idle(0, 0)]

InitOn(sys_platform) == InitProcess(sys_platform, DISPATCH_BATCH_SIZE)

Platforms == {"linux2", "darwin", "win32"}

Init == InitOn("linux2")

\* the process may run on any of the three platforms
InitPath == \E p \in Platforms : InitOn(p)

(***************************************************************************)
(* IODescriptorBase.__new__                                                *)
(***************************************************************************)
\* a __new__ that never finds the key and constructs on every call
InCacheNever(cache, key) == FALSE

\* "cache_key not in instance_cache" is false
InCache(cache, key) == key \in DOMAIN cache

\* instance_cache[cache_key] = <new object>
Store(cache, key, obj) ==
  [k \in DOMAIN cache \cup {key} |-> IF k = key THEN obj ELSE cache[k]]

(***************************************************************************)
(* os.path of the running platform: posixpath on linux2 and darwin, ntpath *)
(* on win32.                                                               *)
(***************************************************************************)
\* os.environ: APPS=/opt/apps, and no other variable the paths refer to
Environ == [v \in {"$APPS"} |-> <<"/", "opt", "/", "apps">>]

RECURSIVE Expandvars(_)
Expandvars(s) ==
  IF s = <<>>
    THEN <<>>
    ELSE (IF Head(s) \in DOMAIN Environ THEN Environ[Head(s)] ELSE <<Head(s)>>)
           \o Expandvars(Tail(s))

Separators(p) == IF p = "win32" THEN {"/", "\\"} ELSE {"/"}
Drives == {"d:"}

\* s.split(sep): the components between the separators
RECURSIVE Split(_, _)
Split(s, seps) ==
  IF s = <<>>
    THEN << <<>> >>
    ELSE LET r == Split(Tail(s), seps)
         IN IF Head(s) \in seps
              THEN << <<>> >> \o r
              ELSE << <<Head(s)>> \o Head(r) >> \o Tail(r)

\* sep.join(comps)
RECURSIVE Join(_, _)
Join(comps, sep) ==
  IF comps = <<>> THEN <<>>
  ELSE IF Len(comps) = 1 THEN Head(comps)
  ELSE Head(comps) \o <<sep>> \o Join(Tail(comps), sep)

\* the loop of normpath over the first n components: "" and "." are
\* dropped, ".." removes the component before it
RECURSIVE Collapse(_, _, _)
Collapse(comps, n, rooted) ==
  IF n = 0
    THEN <<>>
    ELSE LET acc  == Collapse(comps, n - 1, rooted)
             comp == comps[n]
         IN IF comp \in {<<>>, <<".">>}
              THEN acc
            ELSE IF \/ comp # <<"..">>
                    \/ (~rooted /\ acc = <<>>)
                    \/ (acc # <<>> /\ acc[Len(acc)] = <<"..">>)
              THEN Append(acc, comp)
            ELSE IF acc # <<>>
              THEN SubSeq(acc, 1, Len(acc) - 1)
            ELSE acc

\* the number of separators a string starts with
RECURSIVE Leading(_, _)
Leading(s, seps) ==
  IF s # <<>> /\ Head(s) \in seps THEN 1 + Leading(Tail(s), seps) ELSE 0

\* ntpath.splitdrive
Drive(s) == IF s # <<>> /\ Head(s) \in Drives THEN <<Head(s)>> ELSE <<>>
NoDrive(s) == IF s # <<>> /\ Head(s) \in Drives THEN Tail(s) ELSE s

PosixNormpath(s) ==
  LET lead    == Leading(s, {"/"})
      slashes == IF lead = 2 THEN <<"/", "/">> ELSE IF lead > 0 THEN <<"/">> ELSE <<>>
      comps   == Split(s, {"/"})
      path    == slashes \o Join(Collapse(comps, Len(comps), lead > 0), "/")
  IN IF path = <<>> THEN <<".">> ELSE path

NtNormpath(s) ==
  LET rest   == NoDrive(s)
      rooted == Leading(rest, Separators("win32")) > 0
      prefix == Drive(s) \o (IF rooted THEN <<"\\">> ELSE <<>>)
      all    == Split(rest, Separators("win32"))
      comps  == Collapse(all, Len(all), rooted)
  IN IF prefix = <<>> /\ comps = <<>>
       THEN <<".">>
       ELSE prefix \o Join(comps, "\\")

Normpath(p, s) == IF p = "win32" THEN NtNormpath(s) ELSE PosixNormpath(s)

\* os.path.basename: what follows the last separator
Basename(p, s) ==
  LET comps == Split(IF p = "win32" THEN NoDrive(s) ELSE s, Separators(p))
  IN comps[Len(comps)]

\* os.path.splitext(bn)[0]: the last dot and what follows it are taken off
\* unless the name starts there
Splitext(bn) ==
  IF Len(bn) >= 2 /\ bn[Len(bn)] \notin {".", ".."}
       /\ \E c \in {".v2", ".app"} : bn[Len(bn)] = c
    THEN SubSeq(bn, 1, Len(bn) - 1)
    ELSE bn

(***************************************************************************)
(* __init__ of each class: the object after it, whether it raised or not.  *)
(***************************************************************************)
BaseInit(o, root, loc) ==
  [o EXCEPT !.root = root, !.loc = loc, !.manifest = None]

UploadedInit(o, root, loc, conn) ==
  [BaseInit(o, root, loc) EXCEPT
     !.conn = conn,
     !.name = Get(loc, "name"),
     !.project_id = Get(loc, "project_id"),
     !.attachment_id = Get(loc, "attachment_id")]

\* an __init__ that validates nothing
UploadedInitAccepts(loc) == FALSE

UploadedInitRaises(loc) ==
  Get(loc, "name") = None \/ Get(loc, "project_id") = None

OtherInit(o, root, loc) == BaseInit(o, root, loc)

(***************************************************************************)
(* IODescriptorPath.__init__                                               *)
(***************************************************************************)
PlatformKey ==
  [p \in Platforms |->
     CASE p = "linux2" -> "linux_path"
       [] p = "darwin" -> "mac_path"
       [] p = "win32"  -> "windows_path"]

\* self._validate_locator(location_dict, required, optional): a required key
\* is absent
ValidateLocatorRaises(loc, required, optional) == ~(required \subseteq Keys(loc))

\* the reversed lookup: the platform's key before "path"
PathKeyPlatformFirst(loc, p) ==
  IF PlatformKey[p] \in Keys(loc) THEN PlatformKey[p]
  ELSE IF "path" \in Keys(loc) THEN "path"
  ELSE None

\* the key self._path is read from: "path", else the running platform's
\* key, else none (None)
PathKey(loc, p) ==
  IF "path" \in Keys(loc) THEN "path"
  ELSE IF PlatformKey[p] \in Keys(loc) THEN PlatformKey[p]
  ELSE None

\* a name that is whatever the location dict holds, the empty string too
PathNameAsGiven(loc, p, path) ==
  IF "name" \in Keys(loc) THEN Get(loc, "name") ELSE Splitext(Basename(p, path))

\* self._name: the dict's name, or when there is none, or an empty one, the
\* folder name without its extension
PathName(loc, p, path) ==
  IF "name" \in Keys(loc) /\ Get(loc, "name") # <<>>
    THEN Get(loc, "name")
    ELSE Splitext(Basename(p, path))

PathInitRaises(loc, p) ==
  \/ ValidateLocatorRaises(loc, {"type"},
        {"name", "version", "linux_path", "mac_path", "path", "windows_path"})
  \/ PathKey(loc, p) = None

PathInit(o, root, loc, p) ==
  LET b    == BaseInit(o, root, loc)
      path == Normpath(p, Expandvars(Get(loc, PathKey(loc, p))))
  IN IF PathInitRaises(loc, p)
       THEN b
       ELSE [b EXCEPT !.path = path, !.name = PathName(loc, p, path)]

ObjInit(o, cls, root, loc, conn) ==
  IF cls = Uploaded THEN UploadedInit(o, root, loc, conn)
  ELSE IF cls = Path THEN PathInit(o, root, loc, platform)
  ELSE OtherInit(o, root, loc)

InitRaises(cls, loc) ==
  \/ cls = Uploaded /\ UploadedInitRaises(loc)
  \/ cls = Path /\ PathInitRaises(loc, platform)

(***************************************************************************)
(* A constructor call cls(root, loc, conn): type.__call__ runs __new__     *)
(* and then, when the object __new__ gave is an instance of cls, __init__  *)
(* on it.  Construct gives the heap and the cache after the call, the      *)
(* object, and whether __init__ raised.                                    *)
(***************************************************************************)
Construct(h, cache, cls, root, loc, conn) ==
  LET key     == CacheKey(root, loc)
      hit     == InCache(cache, key)
      obj     == IF hit THEN cache[key] ELSE Len(h) + 1
      h1      == IF hit THEN h ELSE Append(h, NewObject(cls, key))
      runInit == h1[obj].cls = cls
  IN [heap    |-> IF runInit
                    THEN [h1 EXCEPT ![obj] = ObjInit(h1[obj], cls, root, loc, conn)]
                    ELSE h1,
      cache   |-> IF hit THEN cache ELSE Store(cache, key, obj),
      key     |-> key,
      obj     |-> obj,
      created |-> IF hit THEN 0 ELSE 1,
      raises  |-> runInit /\ InitRaises(cls, loc)]

\* the heap has room for the object a constructor call may allocate
Room(root, loc) == InCache(_instances, CacheKey(root, loc)) \/ Len(heap) < MaxObjs

Resolve(cls, root, loc, conn) ==
  LET c == Construct(heap, _instances, cls, root, loc, conn)
  IN /\ Room(root, loc)
     /\ heap' = c.heap
     /\ _instances' = c.cache
     /\ returned' = IF c.raises THEN returned ELSE returned \cup {<<c.key, c.obj>>}
     /\ prev' = NoCall
     /\ last' = Call("resolve", c.obj, cls,
                     IF c.raises THEN "ShotgunDeployError" ELSE "returned",
                     IF c.raises THEN None ELSE cls, c.created, Zero)
     /\ UNCHANGED <<disk, thr, platform, metricVars, cacheVars>>

(***************************************************************************)
(* A constructor call on a thread, one step of IODescriptorBase.__new__    *)
(* at a time: the interpreter may switch threads between any two of them   *)
(* (__new__ takes no lock).                                                *)
(***************************************************************************)
\* the call starts: cache_key = (bundle_cache_root, str(location_dict))
Begin(t, cls, root, loc, conn) ==
  /\ thr[t].pc = "idle"
  /\ thr[t].calls < MaxCalls
  /\ thr' = [thr EXCEPT ![t] =
               [pc |-> "check", cls |-> cls, root |-> root, loc |-> loc, conn |-> conn,
                key |-> CacheKey(root, loc), obj |-> 0, calls |-> @.calls + 1, got |-> 0]]
  /\ UNCHANGED <<heap, _instances, disk, returned, last, prev, platform, metricVars, cacheVars>>

\* if cache_key not in instance_cache:
Check(t) ==
  /\ thr[t].pc = "check"
  /\ thr' = [thr EXCEPT ![t].pc =
               IF InCache(_instances, thr[t].key) THEN "return" ELSE "create"]
  /\ UNCHANGED <<heap, _instances, disk, returned, last, prev, platform, metricVars, cacheVars>>

\* instance_cache[cache_key] = super(IODescriptorBase, cls).__new__(...)
Create(t) ==
  /\ thr[t].pc = "create"
  /\ Len(heap) < MaxObjs
  /\ heap' = Append(heap, NewObject(thr[t].cls, thr[t].key))
  /\ _instances' = Store(_instances, thr[t].key, Len(heap) + 1)
  /\ thr' = [thr EXCEPT ![t].pc = "return"]
  /\ UNCHANGED <<disk, returned, last, prev, platform, metricVars, cacheVars>>

\* return instance_cache[cache_key]
Return(t) ==
  /\ thr[t].pc = "return"
  /\ thr' = [thr EXCEPT ![t].pc = "init", ![t].obj = _instances[thr[t].key]]
  /\ UNCHANGED <<heap, _instances, disk, returned, last, prev, platform, metricVars, cacheVars>>

\* type.__call__ runs __init__ on the object and hands it to the caller
RunInit(t) ==
  LET c       == thr[t]
      runInit == heap[c.obj].cls = c.cls
      raises  == runInit /\ InitRaises(c.cls, c.loc)
  IN /\ c.pc = "init"
     /\ heap' = IF runInit
                  THEN [heap EXCEPT ![c.obj] = ObjInit(@, c.cls, c.root, c.loc, c.conn)]
                  ELSE heap
     /\ returned' = IF raises THEN returned ELSE returned \cup {<<c.key, c.obj>>}
     /\ thr' = [thr EXCEPT ![t] = Idle(c.calls, IF raises THEN 0 ELSE c.obj)]
     /\ UNCHANGED <<_instances, disk, last, prev, platform, metricVars, cacheVars>>

(***************************************************************************)
(* Paths and the disk.                                                     *)
(***************************************************************************)
\* os.path.join(self._bundle_cache_root, descriptor_name, name, version)
GetLocalLocation(o, descriptor_name, name, version) ==
  <<o.root, descriptor_name, name, version>>

\* util.create_valid_filename: the names used here are valid as they are
CreateValidFilename(name) == name

\* "p%s_%s" % (self._project_id, self._name), made a valid file name
UploadedGetSystemName(o) == CreateValidFilename(<<"p", o.project_id, "_", o.name>>)

\* "v%s" % self._attachment_id
UploadedGetVersion(o) == <<"v", o.attachment_id>>

UploadedGetPath(o) ==
  GetLocalLocation(o, "sg_pc", UploadedGetSystemName(o), UploadedGetVersion(o))

OtherGetPath(o) ==
  GetLocalLocation(o, "other", Get(o.loc, "name"), Get(o.loc, "version"))

PathGetPath(o) == o.path

GetPath(o) ==
  IF o.cls = Uploaded THEN UploadedGetPath(o)
  ELSE IF o.cls = Path THEN PathGetPath(o)
  ELSE OtherGetPath(o)

\* what a bundle folder holds: "absent" no folder; "nofile" a folder without
\* the metadata file; "bad" a metadata file that does not parse; "empty" one
\* that parses to None (an empty document); "m1", "m2" one that parses to
\* that mapping
Contents == {"nofile", "bad", "empty", "m1", "m2"}
\* what the archive of a bundle unpacks to
Bundle == "m1"
DiskAt(d, p) == IF p \in DOMAIN d THEN d[p] ELSE "absent"
Put(d, p, c) == [q \in DOMAIN d \cup {p} |-> IF q = p THEN c ELSE d[q]]

\* yaml.load of the metadata file
YamlLoad(c) == IF c = "empty" THEN None ELSE c

(***************************************************************************)
(* exists_local.  IODescriptorBase raises NotImplementedError and          *)
(* IODescriptorUploadedConfig defines no exists_local of its own.          *)
(***************************************************************************)
BaseExistsLocal == "NotImplementedError"
OtherExistsLocal(d, o) == IF DiskAt(d, OtherGetPath(o)) # "absent" THEN "yes" ELSE "no"
ExistsLocal(d, o) == IF o.cls = OtherBackend THEN OtherExistsLocal(d, o) ELSE BaseExistsLocal

(***************************************************************************)
(* download_local.  A script says how the remote store and the archive     *)
(* behave during the call: "ok" the first fetch succeeds; "flaky" the      *)
(* first fetch fails and the second succeeds; "down" both fail; "badzip"   *)
(* the fetch succeeds and the archive does not unpack.  bundle is what the *)
(* archive holds.  The result: the disk after the call, the outcome, and   *)
(* the counts.                                                             *)
(***************************************************************************)
Scripts == {"ok", "flaky", "down", "badzip"}

Done(d, out, n) == [disk |-> d, out |-> out, n |-> n]

UploadedDownloadLocal(d, o, script, bundle) ==
  LET e      == ExistsLocal(d, o)
      target == UploadedGetPath(o)
      \* ensure_folder_exists(target)
      d1     == IF DiskAt(d, target) = "absent" THEN Put(d, target, "nofile") ELSE d
      tries  == IF script \in {"flaky", "down"} THEN 2 ELSE 1
  IN IF e = "NotImplementedError"
       THEN Done(d, "NotImplementedError", [Zero EXCEPT !.checks = 1])
     ELSE IF e = "yes"
       THEN Done(d, "returned", [Zero EXCEPT !.checks = 1])
     ELSE IF script = "down"
       THEN Done(d1, "FetchError", [Zero EXCEPT !.checks = 1, !.fetches = tries])
     ELSE IF script = "badzip"
       THEN Done(d1, "UnzipError",
                 [Zero EXCEPT !.checks = 1, !.fetches = tries, !.tmp = 1, !.unzips = 1])
     ELSE Done(Put(d1, target, bundle), "returned",
               [Zero EXCEPT !.checks = 1, !.fetches = tries, !.tmp = 1, !.unzips = 1])

OtherDownloadLocal(d, o, script, bundle) ==
  IF OtherExistsLocal(d, o) = "yes"
    THEN Done(d, "returned", [Zero EXCEPT !.checks = 1])
  ELSE IF script = "ok"
    THEN Done(Put(d, OtherGetPath(o), bundle), "returned",
              [Zero EXCEPT !.checks = 1, !.fetches = 1])
  ELSE Done(d, "FetchError", [Zero EXCEPT !.checks = 1, !.fetches = 1])

\* IODescriptorPath.download_local does nothing
PathDownloadLocal(d, o) == Done(d, "returned", Zero)

DownloadLocalOf(d, o, script, bundle) ==
  IF o.cls = Uploaded THEN UploadedDownloadLocal(d, o, script, bundle)
  ELSE IF o.cls = Path THEN PathDownloadLocal(d, o)
  ELSE OtherDownloadLocal(d, o, script, bundle)

Plus(a, b) ==
  [checks |-> a.checks + b.checks, fetches |-> a.fetches + b.fetches,
   reads |-> a.reads + b.reads, lookups |-> a.lookups + b.lookups,
   tmp |-> a.tmp + b.tmp, unzips |-> a.unzips + b.unzips]

\* IODescriptorBase.ensure_local
EnsureLocalOf(d, o, script, bundle) ==
  LET e == ExistsLocal(d, o)
      r == DownloadLocalOf(d, o, script, bundle)
  IN IF e = "NotImplementedError"
       THEN Done(d, "NotImplementedError", [Zero EXCEPT !.checks = 1])
     ELSE IF e = "yes"
       THEN Done(d, "returned", [Zero EXCEPT !.checks = 1])
     ELSE Done(r.disk, r.out, Plus([Zero EXCEPT !.checks = 1], r.n))

(***************************************************************************)
(* IODescriptorBase.get_manifest: the result also holds the object after   *)
(* the call and the value returned.                                        *)
(***************************************************************************)
Got(d, o, out, ret, n) == [disk |-> d, obj |-> o, out |-> out, ret |-> ret, n |-> n]

GetManifestOf(d, o, script, bundle) ==
  LET e    == ExistsLocal(d, o)
      r    == IF e = "no"
                THEN DownloadLocalOf(d, o, script, bundle)
                ELSE Done(d, "returned", Zero)
      n1   == Plus([Zero EXCEPT !.checks = 1], r.n)
      file == DiskAt(r.disk, GetPath(o))
  IN IF o.manifest # None
       THEN Got(d, o, "returned", o.manifest, Zero)
     ELSE IF e = "NotImplementedError"
       THEN Got(d, o, "NotImplementedError", None, [Zero EXCEPT !.checks = 1])
     ELSE IF r.out # "returned"
       THEN Got(r.disk, o, r.out, None, n1)
     ELSE IF file \in {"absent", "nofile"}
       THEN Got(r.disk, o, "ShotgunDeployError", None, n1)
     ELSE IF file = "bad"
       THEN Got(r.disk, o, "ShotgunDeployError", None, [n1 EXCEPT !.reads = 1])
     ELSE Got(r.disk, [o EXCEPT !.manifest = YamlLoad(file)], "returned",
              YamlLoad(file), [n1 EXCEPT !.reads = 1])

(***************************************************************************)
(* The method calls as actions, on an object some caller holds.            *)
(***************************************************************************)
\* prev after a method call: the call before it when that was a method call
\* too and the specification keeps track of pairs of calls
Track(pairs) == IF pairs /\ last.op \in MethodOps THEN last ELSE NoCall

GetManifest(obj, script, bundle, pairs) ==
  LET r == GetManifestOf(disk, heap[obj], script, bundle)
  IN /\ obj \in Held
     /\ heap' = [heap EXCEPT ![obj] = r.obj]
     /\ disk' = r.disk
     /\ prev' = Track(pairs)
     /\ last' = Call("get_manifest", obj, None, r.out, r.ret, 0, r.n)
     /\ UNCHANGED <<_instances, returned, thr, platform, metricVars, cacheVars>>

EnsureLocal(obj, script, bundle, pairs) ==
  LET r == EnsureLocalOf(disk, heap[obj], script, bundle)
  IN /\ obj \in Held
     /\ disk' = r.disk
     /\ prev' = Track(pairs)
     /\ last' = Call("ensure_local", obj, script, r.out, None, 0, r.n)
     /\ UNCHANGED <<heap, _instances, returned, thr, platform, metricVars, cacheVars>>

DownloadLocal(obj, script, bundle, pairs) ==
  LET r == DownloadLocalOf(disk, heap[obj], script, bundle)
  IN /\ obj \in Held
     /\ disk' = r.disk
     /\ prev' = Track(pairs)
     /\ last' = Call("download_local", obj, script, r.out, None, 0, r.n)
     /\ UNCHANGED <<heap, _instances, returned, thr, platform, metricVars, cacheVars>>

(***************************************************************************)
(* Latest version.  IODescriptorBase.find_latest_version raises            *)
(* NotImplementedError and no class overrides it; the uploaded backend     *)
(* has get_latest_version.  reply is what find_one gives: None (no         *)
(* record), or the record's attachment field.                              *)
(***************************************************************************)
Constraints == {None, "", "v1.x.x"}
NoAttachment == [link_type |-> "absent", id |-> None]
Replies ==
  {[link_type |-> None, id |-> None], NoAttachment,
   [link_type |-> "upload", id |-> "456"], [link_type |-> "upload", id |-> "457"],
   [link_type |-> "web", id |-> "456"]}
NoRecord == [link_type |-> None, id |-> None]

\* Python's truth value of the constraint pattern
Truthy(c) == c # None /\ c # ""

\* the location dict get_latest_version builds
LatestLocation(o, attachment_id) ==
  << <<"type", "shotgun_uploaded_configuration">>, <<"name", o.name>>,
     <<"project_id", o.project_id>>, <<"attachment_id", attachment_id>> >>

FindLatestVersion(obj, c) ==
  /\ obj \in Held
  /\ prev' = NoCall
  /\ last' = Call("find_latest_version", obj, c, "NotImplementedError", None, 0, Zero)
  /\ UNCHANGED <<heap, _instances, disk, returned, thr, platform, metricVars, cacheVars>>

GetLatestVersion(obj, c, reply) ==
  LET o    == heap[obj]
      loc  == LatestLocation(o, reply.id)
      made == Construct(heap, _instances, Uploaded, o.root, loc, o.conn)
      one  == [Zero EXCEPT !.lookups = 1]
      fail(out, n) ==
        /\ last' = Call("get_latest_version", obj, c, out, 0, 0, n)
        /\ UNCHANGED <<heap, _instances, returned>>
  IN /\ obj \in Held
     /\ o.cls = Uploaded
     /\ prev' = NoCall
     /\ UNCHANGED <<disk, thr, platform, metricVars, cacheVars>>
     /\ IF Truthy(c)
          THEN fail("ShotgunDeployError", Zero)
        ELSE IF reply = NoRecord
          THEN fail("ShotgunDeployError", one)
        ELSE IF reply = NoAttachment
          \* pc[field] is None, and None has no get()
          THEN fail("AttributeError", one)
        ELSE IF reply.link_type # "upload"
          THEN fail("ShotgunDeployError", one)
        ELSE /\ Room(o.root, loc)
             /\ heap' = made.heap
             /\ _instances' = made.cache
             /\ returned' = IF made.raises
                              THEN returned
                              ELSE returned \cup {<<made.key, made.obj>>}
             /\ last' = Call("get_latest_version", obj, c,
                             IF made.raises THEN "ShotgunDeployError" ELSE "returned",
                             IF made.raises THEN 0 ELSE made.obj, made.created, one)

\* another process rewrites, or removes, the bundle folder of a descriptor
\* whose backend looks at the disk
DiskChange(obj, c) ==
  /\ obj \in Held
  /\ heap[obj].cls = OtherBackend
  /\ DiskAt(disk, GetPath(heap[obj])) # c
  /\ disk' = Put(disk, GetPath(heap[obj]), c)
  /\ UNCHANGED <<heap, _instances, returned, last, prev, thr, platform, metricVars, cacheVars>>

\* the bundle cache outlives the process: an earlier process, or another
\* one, has written or removed the bundle folder of a descriptor
CacheChange(obj, c) ==
  /\ obj \in Held
  /\ DiskAt(disk, GetPath(heap[obj])) # c
  /\ disk' = Put(disk, GetPath(heap[obj]), c)
  /\ UNCHANGED <<heap, _instances, returned, last, prev, thr, platform, metricVars, cacheVars>>

(***************************************************************************)
(* The methods of IODescriptorPath, on an object some caller holds.  Where *)
(* a path string is expected, NoPath stands for the result None.           *)
(***************************************************************************)
NoPath == <<None>>

\* a get_platform_path that gives get_path() whatever platform is asked for
PlatformPathOfRunning(o, asked, running) == PathGetPath(o)

PlatformPath(o, asked, running) ==
  IF asked = running
    THEN PathGetPath(o)
  ELSE IF PlatformKey[asked] \in Keys(o.loc)
    THEN Get(o.loc, PlatformKey[asked])
  ELSE NoPath

\* a method that returns a value and changes nothing
Returns(op, obj, arg, ret) ==
  /\ obj \in Held
  /\ heap[obj].cls = Path
  /\ prev' = NoCall
  /\ last' = Call(op, obj, arg, "returned", ret, 0, Zero)
  /\ UNCHANGED <<heap, _instances, disk, returned, thr, platform, metricVars, cacheVars>>

PathGetSystemName(obj) == Returns("get_system_name", obj, None, heap[obj].name)

PathGetVersion(obj) == Returns("get_version", obj, None, "v0.0.0")

PathIsImmutable(obj) == Returns("is_immutable", obj, None, FALSE)

PathGetPlatformPath(obj, asked) ==
  Returns("get_platform_path", obj, asked, PlatformPath(heap[obj], asked, platform))

PathGetLatestVersion(obj, c) == Returns("get_latest_version", obj, c, obj)

(***************************************************************************)
(* MetricsDispatchQueueSingleton.  A queue object holds _dispatching,      *)
(* _workers (the worker threads, by their index in workers) and _queue;    *)
(* first and arg are history: the 'workers' argument of the first, and of  *)
(* the most recent, start_dispatching() call that started threads (first   *)
(* is 0 until there is one).  _lock is "free" or "held": a threading.Lock  *)
(* has no owner.  A worker thread holds the queue it serves, whether its   *)
(* halt event is set, where it is in run(), and the metrics its last       *)
(* _get_metrics call returned to it.                                       *)
(***************************************************************************)
NewQueue ==
  [dispatching |-> FALSE, workers |-> <<>>, queue |-> <<>>, first |-> 0, arg |-> 0,
   lock |-> "free"]

\* _MetricsDispatchWorkerThread(tk, self, log), started
NewWorker(q) == [queue |-> q, halted |-> FALSE, pc |-> "loop", metrics |-> <<>>]

\* MetricsDispatchQueueSingleton() on a thread, one step of __new__ at a
\* time (__new__ takes no lock)
MBegin(t) ==
  /\ mthr[t].pc = "idle"
  /\ mthr[t].calls < MaxCalls
  /\ mthr' = [mthr EXCEPT ![t] = [pc |-> "check", calls |-> @.calls + 1, got |-> 0]]
  /\ UNCHANGED <<__instance, queues, workers, mlast, runVars, descVars, cacheVars>>

\* if not cls.__instance:
MCheck(t) ==
  /\ mthr[t].pc = "check"
  /\ mthr' = [mthr EXCEPT ![t].pc = IF __instance = 0 THEN "create" ELSE "return"]
  /\ UNCHANGED <<__instance, queues, workers, mlast, runVars, descVars, cacheVars>>

\* metrics_queue = super(...).__new__(cls); ...; cls.__instance = metrics_queue
MCreate(t) ==
  /\ mthr[t].pc = "create"
  /\ queues' = Append(queues, NewQueue)
  /\ __instance' = Len(queues) + 1
  /\ mthr' = [mthr EXCEPT ![t].pc = "return"]
  /\ UNCHANGED <<workers, mlast, runVars, descVars, cacheVars>>

\* return cls.__instance
MReturn(t) ==
  /\ mthr[t].pc = "return"
  /\ mthr' = [mthr EXCEPT ![t] = NotCalling(@.calls, __instance)]
  /\ UNCHANGED <<__instance, queues, workers, mlast, runVars, descVars, cacheVars>>

\* MetricsDispatchQueueSingleton() as one step, no other thread running
GetQueue(t) ==
  LET made == __instance = 0
      q    == IF made THEN Len(queues) + 1 ELSE __instance
  IN /\ mthr[t].pc = "idle"
     /\ mthr[t].calls < MaxCalls
     /\ queues' = IF made THEN Append(queues, NewQueue) ELSE queues
     /\ __instance' = q
     /\ mthr' = [mthr EXCEPT ![t] = NotCalling(@.calls + 1, q)]
     /\ UNCHANGED <<workers, mlast, runVars, descVars, cacheVars>>

\* the queues some caller holds a reference to
QueuesHeld == {mthr[t].got : t \in Threads} \ {0}

\* a start_dispatching that never finds the queue started
NeverDispatching(q) == FALSE

\* if self._dispatching:
AlreadyDispatching(q) == queues[q].dispatching

\* self._metrics_supported(tk.shotgun): self._metrics_ok = True
MetricsSupported == TRUE

\* the indices of the n worker threads a call starts
NewWorkers(n) == [i \in 1 .. n |-> Len(workers) + i]

StartDispatching(q, n) ==
  /\ q \in QueuesHeld
  /\ Len(workers) + n <= MaxStarted
  /\ IF AlreadyDispatching(q) \/ ~MetricsSupported
       THEN /\ mlast' = QueueCall("start_dispatching", q, n, 0)
            /\ UNCHANGED <<queues, workers>>
       ELSE /\ workers' = workers \o [i \in 1 .. n |-> NewWorker(q)]
            /\ queues' = [queues EXCEPT
                 ![q].workers = @ \o NewWorkers(n),
                 ![q].dispatching = TRUE,
                 ![q].first = IF @ = 0 THEN n ELSE @,
                 ![q].arg = IF n > 0 THEN n ELSE @]
            /\ mlast' = QueueCall("start_dispatching", q, n, n)
  /\ UNCHANGED <<__instance, mthr, runVars, descVars, cacheVars>>

StopDispatching(q) ==
  /\ q \in QueuesHeld
  /\ workers' = [w \in DOMAIN workers |->
                   IF \E i \in DOMAIN queues[q].workers : queues[q].workers[i] = w
                     THEN [workers[w] EXCEPT !.halted = TRUE]
                     ELSE workers[w]]
  /\ queues' = [queues EXCEPT ![q].dispatching = FALSE, ![q].workers = <<>>]
  /\ mlast' = QueueCall("stop_dispatching", q, 0, 0)
  /\ UNCHANGED <<__instance, mthr, runVars, descVars, cacheVars>>

\* log(metric): self._queue.append(metric), under the lock
Log(q, metric) ==
  /\ q \in QueuesHeld
  /\ Len(queues[q].queue) < MaxQueued
  /\ queues[q].lock = "free"
  /\ queues' = [queues EXCEPT ![q].queue = Append(@, metric)]
  /\ mlast' = QueueCall("log", q, metric, 0)
  /\ UNCHANGED <<__instance, workers, mthr, runVars, descVars, cacheVars>>

(***************************************************************************)
(* log() and _get_metrics(), one step for each side of the lock.  Every    *)
(* read and write of _queue is made with _lock held, so what a call does   *)
(* between acquire() and release() is one step.                            *)
(***************************************************************************)
\* the metrics that have been passed to log()
Logged ==
  {hist.logged[i] : i \in DOMAIN hist.logged}
    \cup {logging[t].metric : t \in {u \in Threads : logging[u] # NoLog}}

\* log(metric) of a thread on the queue it holds, up to the return of
\* self._lock.acquire(); a metric object is logged once
LogAcquire(t, metric) ==
  LET q == mthr[t].got
  IN /\ mthr[t].pc = "idle"
     /\ q # 0
     /\ logging[t] = NoLog
     /\ metric \notin Logged
     /\ queues[q].lock = "free"
     /\ queues' = [queues EXCEPT ![q].lock = "held"]
     /\ logging' = [logging EXCEPT ![t] = [queue |-> q, metric |-> metric]]
     /\ UNCHANGED <<__instance, workers, mthr, mlast, batch_size, hist, descVars, cacheVars>>

\* self._queue.append(metric); self._lock.release()
LogRelease(t) ==
  LET q      == logging[t].queue
      metric == logging[t].metric
  IN /\ logging[t] # NoLog
     /\ queues' = [queues EXCEPT ![q].queue = Append(@, metric), ![q].lock = "free"]
     /\ logging' = [logging EXCEPT ![t] = NoLog]
     /\ hist' = [hist EXCEPT !.logged = Append(@, metric)]
     /\ mlast' = QueueCall("log", q, metric, 0)
     /\ UNCHANGED <<__instance, workers, mthr, batch_size, descVars, cacheVars>>

\* not count: the argument was not supplied (None), or is 0
NotCount(supplied, count) == ~supplied \/ count = 0

\* a count that is used as it was given
CountAsGiven(supplied, count, num_pending) == count

\* if not count or count > num_pending: count = num_pending
Count(supplied, count, num_pending) ==
  IF NotCount(supplied, count) \/ count > num_pending THEN num_pending ELSE count

\* len(range(0, count)): the number of popleft() calls of the comprehension
Range0(count) == IF count > 0 THEN count ELSE 0

\* a queue that keeps what was popped from it
RemainingAll(queue, k) == queue

\* the deque after k popleft() calls
Remaining(queue, k) == SubSeq(queue, k + 1, Len(queue))

\* The body of _get_metrics between acquire() and release(): the list it
\* returns and the deque it leaves.  A popleft() on an empty deque raises
\* IndexError, which is swallowed: the metrics popped before it are lost and
\* the list stays empty.
GetMetricsOf(queue, supplied, count) ==
  LET num_pending == Len(queue)
      k           == Range0(Count(supplied, count, num_pending))
  IN IF num_pending = 0
       THEN [metrics |-> <<>>, queue |-> queue]
     ELSE IF k > num_pending
       THEN [metrics |-> <<>>, queue |-> <<>>]
     ELSE [metrics |-> SubSeq(queue, 1, k), queue |-> Remaining(queue, k)]

\* one more return of each metric of a list
Return1(counts, metrics) ==
  [m \in DOMAIN counts |->
     counts[m] + Cardinality({i \in DOMAIN metrics : metrics[i] = m})]

\* the arguments a caller may give as count
Counts == -1 .. 4

\* q._get_metrics() or q._get_metrics(count) called by a thread, no other
\* call on the queue in progress
GetMetrics(q, supplied, count) ==
  LET r == GetMetricsOf(queues[q].queue, supplied, count)
  IN /\ q \in QueuesHeld
     /\ queues[q].lock = "free"
     /\ queues' = [queues EXCEPT ![q].queue = r.queue]
     /\ hist' = [hist EXCEPT !.returned = Return1(@, r.metrics)]
     /\ mlast' = [QueueCall("_get_metrics", q, IF supplied THEN count ELSE 0, 0)
                    EXCEPT !.ret = r.metrics]
     /\ UNCHANGED <<__instance, workers, mthr, batch_size, logging, descVars, cacheVars>>

(***************************************************************************)
(* _MetricsDispatchWorkerThread.run, one step at a time.  pc of a worker:  *)
(*   "loop"     at the test of the while loop                              *)
(*   "get"      in _get_metrics, waiting for the lock                      *)
(*   "locked"   in _get_metrics, holding the lock                          *)
(*   "dispatch" about to call _dispatch with a list that is not empty      *)
(*   "wait"     in self._halt_event.wait(DISPATCH_INTERVAL)                *)
(*   "done"     run() has returned                                         *)
(***************************************************************************)
\* a halt event that is never seen set
HaltNeverSet(w) == FALSE

\* self._halt_event.isSet()
HaltSet(w) == workers[w].halted

\* while not self._halt_event.isSet():
WTest(w) ==
  /\ workers[w].pc = "loop"
  /\ workers' = [workers EXCEPT ![w].pc = IF HaltSet(w) THEN "done" ELSE "get"]
  /\ UNCHANGED <<__instance, queues, mthr, mlast, runVars, descVars, cacheVars>>

\* self._metrics_queue._get_metrics(self.DISPATCH_BATCH_SIZE), up to the
\* return of self._lock.acquire()
WAcquire(w) ==
  LET q == workers[w].queue
  IN /\ workers[w].pc = "get"
     /\ queues[q].lock = "free"
     /\ queues' = [queues EXCEPT ![q].lock = "held"]
     /\ workers' = [workers EXCEPT ![w].pc = "locked"]
     /\ UNCHANGED <<__instance, mthr, mlast, runVars, descVars, cacheVars>>

\* the rest of _get_metrics, and "if metrics:"
WTake(w) ==
  LET q == workers[w].queue
      r == GetMetricsOf(queues[q].queue, TRUE, batch_size)
  IN /\ workers[w].pc = "locked"
     /\ queues' = [queues EXCEPT ![q].queue = r.queue, ![q].lock = "free"]
     /\ workers' = [workers EXCEPT
          ![w].pc = IF r.metrics # <<>> THEN "dispatch" ELSE "wait",
          ![w].metrics = r.metrics]
     /\ hist' = [hist EXCEPT !.returned = Return1(@, r.metrics)]
     /\ UNCHANGED <<__instance, mthr, mlast, batch_size, logging, descVars, cacheVars>>

\* self._dispatch(metrics): the list is handed over; whatever _dispatch
\* raises is caught and logged by run()
WDispatch(w) ==
  /\ workers[w].pc = "dispatch"
  /\ hist' = [hist EXCEPT !.handed = @ \o workers[w].metrics]
  /\ workers' = [workers EXCEPT ![w].pc = "wait", ![w].metrics = <<>>]
  /\ UNCHANGED <<__instance, queues, mthr, mlast, batch_size, logging, descVars, cacheVars>>

\* finally: self._halt_event.wait(self.DISPATCH_INTERVAL) returns, the
\* event set or the interval over
WWait(w) ==
  /\ workers[w].pc = "wait"
  /\ workers' = [workers EXCEPT ![w].pc = "loop"]
  /\ UNCHANGED <<__instance, queues, mthr, mlast, runVars, descVars, cacheVars>>


(***************************************************************************)
(* paths.py.  A path is the sequence of its components and separators.     *)
(* shotgun_base.get_cache_root, get_pipeline_config_cache_root and         *)
(* ensure_folder_exists are called but not part of the package: the cache  *)
(* root is one fixed directory, the pipeline configuration root is that    *)
(* directory extended by the site, the project and the pipeline            *)
(* configuration, and ensure_folder_exists creates a directory and its     *)
(* parents when they are missing.  The clock counts ticks of half a second.*)
(***************************************************************************)
GetCacheRoot == <<"/", "cache">>

\* os.path.join(a, b) for a relative b
OsPathJoin(a, b) ==
  IF a # <<>> /\ a[Len(a)] = "/" THEN a \o <<b>> ELSE a \o <<"/", b>>

Sites == {"site"}
Projects == {"p1", "p2"}
PipelineConfigs == {"pc7"}

GetPipelineConfigCacheRoot(site_url, project_id, pipeline_configuration_id) ==
  OsPathJoin(OsPathJoin(OsPathJoin(GetCacheRoot, site_url), project_id),
             pipeline_configuration_id)

\* the directory a path names, and every directory above it
Parents(path) == {SubSeq(path, 1, k) : k \in {i \in DOMAIN path : path[i] # "/"}}

\* an ensure_folder_exists that creates nothing
EnsureFolderSkipped(d, path) == d

EnsureFolderExists(d, path) == d \cup Parents(path)

TicksPerSecond == 2

\* datetime.datetime.now().strftime("%Y%m%d_%H%M%S"): the time to the second
DateStr(now) == ToString(now \div TicksPerSecond)

\* a call, the time it was made at, and the time of the call before it when
\* that was the same call (-1 when it was not)
PathCall(op, args, ret) ==
  [op |-> op, args |-> args, ret |-> ret, at |-> clock,
   since |-> IF plast.op = op /\ plast.args = args THEN plast.at ELSE -1]

GetBundleCacheRoot ==
  LET bundle_cache_root == OsPathJoin(GetCacheRoot, "bundle_cache")
  IN /\ dirs' = EnsureFolderExists(dirs, bundle_cache_root)
     /\ plast' = PathCall("get_bundle_cache_root", <<>>, bundle_cache_root)
     /\ UNCHANGED <<clock, descVars, metricVars>>

GetConfigurationCacheRoot(site_url, project_id, pipeline_configuration_id) ==
  LET config_cache_root ==
        OsPathJoin(GetPipelineConfigCacheRoot(site_url, project_id,
                                              pipeline_configuration_id), "config")
  IN /\ dirs' = EnsureFolderExists(dirs, config_cache_root)
     /\ plast' = PathCall("get_configuration_cache_root",
                          <<site_url, project_id, pipeline_configuration_id>>,
                          config_cache_root)
     /\ UNCHANGED <<clock, descVars, metricVars>>

GetConfigurationBackup(site_url, project_id, pipeline_configuration_id) ==
  LET date_str == DateStr(clock)
      config_cache_root ==
        OsPathJoin(OsPathJoin(GetPipelineConfigCacheRoot(site_url, project_id,
                                                         pipeline_configuration_id),
                              "config.bak"), date_str)
  IN /\ dirs' = EnsureFolderExists(dirs, config_cache_root)
     /\ plast' = PathCall("get_configuration_backup",
                          <<site_url, project_id, pipeline_configuration_id>>,
                          config_cache_root)
     /\ UNCHANGED <<clock, descVars, metricVars>>

\* half a second passes
Tick ==
  /\ clock < MaxClock
  /\ clock' = clock + 1
  /\ UNCHANGED <<dirs, plast, descVars, metricVars>>

\* somebody removes a directory, and all that is in it
RemoveDir(d) ==
  /\ d \in dirs
  /\ dirs' = {e \in dirs : ~(Len(e) >= Len(d) /\ SubSeq(e, 1, Len(d)) = d)}
  /\ plast' = NoPathCall
  /\ UNCHANGED <<clock, descVars, metricVars>>


(***************************************************************************)
(* Specifications.  SpecRegistry: constructor calls alone, under two cache *)
(* roots.  Spec: every call of the descriptor interface, under one cache   *)
(* root.  SpecPairs: the method calls of two descriptors, keeping the call *)
(* before the last one.  SpecRace: constructor calls of several threads,   *)
(* interleaved.                                                            *)
(***************************************************************************)
NextRegistry ==
  \/ \E root \in Roots, loc \in LocDicts, conn \in Conns :
       Resolve(Uploaded, root, loc, conn)
  \/ \E root \in Roots : Resolve(OtherBackend, root, LocOther, None)

SpecRegistry == Init /\ [][NextRegistry]_vars

MainRoot == "/cache1"

MainLocs == {LocUp456, LocUpNoProject, LocOther}

Next ==
  \/ \E loc \in MainLocs, conn \in Conns : Resolve(Uploaded, MainRoot, loc, conn)
  \/ Resolve(OtherBackend, MainRoot, LocOther, None)
  \/ \E obj \in DOMAIN heap, script \in Scripts : GetManifest(obj, script, Bundle, FALSE)
  \/ \E obj \in DOMAIN heap, script \in Scripts : EnsureLocal(obj, script, Bundle, FALSE)
  \/ \E obj \in DOMAIN heap, script \in Scripts : DownloadLocal(obj, script, Bundle, FALSE)
  \/ \E obj \in DOMAIN heap, c \in Constraints : FindLatestVersion(obj, c)
  \/ \E obj \in DOMAIN heap, c \in Constraints, reply \in Replies :
       GetLatestVersion(obj, c, reply)
  \/ \E obj \in DOMAIN heap, c \in Contents \cup {"absent"} : DiskChange(obj, c)

Spec == Init /\ [][Next]_vars

NextPairs ==
  \/ Resolve(Uploaded, MainRoot, LocUp456, "sgA")
  \/ Resolve(OtherBackend, MainRoot, LocOther, None)
  \/ \E obj \in DOMAIN heap, script \in Scripts : GetManifest(obj, script, Bundle, TRUE)
  \/ \E obj \in DOMAIN heap, script \in Scripts : EnsureLocal(obj, script, Bundle, TRUE)
  \/ \E obj \in DOMAIN heap, script \in Scripts : DownloadLocal(obj, script, Bundle, TRUE)
  \/ \E obj \in DOMAIN heap, c \in Contents \cup {"absent"} : DiskChange(obj, c)

SpecPairs == Init /\ [][NextPairs]_vars

RaceLocs == {LocUp456, LocUp456Rev}

NextRace ==
  \/ \E t \in Threads, loc \in RaceLocs, conn \in Conns :
       Begin(t, Uploaded, MainRoot, loc, conn)
  \/ \E t \in Threads : Check(t)
  \/ \E t \in Threads : Create(t)
  \/ \E t \in Threads : Return(t)
  \/ \E t \in Threads : RunInit(t)

SpecRace == Init /\ [][NextRace]_vars

\* SpecLocal: an uploaded-configuration descriptor whose bundle folder may
\* be in the bundle cache already
NextLocal ==
  \/ \E conn \in Conns : Resolve(Uploaded, MainRoot, LocUp456, conn)
  \/ \E obj \in DOMAIN heap, c \in Contents \cup {"absent"} : CacheChange(obj, c)
  \/ \E obj \in DOMAIN heap, script \in Scripts : EnsureLocal(obj, script, Bundle, FALSE)
  \/ \E obj \in DOMAIN heap, script \in Scripts : DownloadLocal(obj, script, Bundle, FALSE)

SpecLocal == Init /\ [][NextLocal]_vars

\* SpecClasses: constructor calls of the two backends of the package, each
\* given the location dict of either
ClassLocs == {LocUp456, LocPath}

NextClasses ==
  \/ \E root \in Roots, loc \in ClassLocs, conn \in Conns :
       Resolve(Uploaded, root, loc, conn)
  \/ \E root \in Roots, loc \in ClassLocs : Resolve(Path, root, loc, None)

SpecClasses == Init /\ [][NextClasses]_vars

\* SpecLatest: constructor calls and latest-version requests of the uploaded
\* backend, the location dict given with its keys in either order
NextLatest ==
  \/ \E loc \in RaceLocs, conn \in Conns : Resolve(Uploaded, MainRoot, loc, conn)
  \/ \E obj \in DOMAIN heap, c \in Constraints, reply \in Replies :
       GetLatestVersion(obj, c, reply)

SpecLatest == Init /\ [][NextLatest]_vars

\* SpecPath: path descriptors on each of the three platforms
NextPath ==
  \/ \E loc \in PathLocs : Resolve(Path, MainRoot, loc, None)
  \/ \E obj \in DOMAIN heap : PathGetSystemName(obj)
  \/ \E obj \in DOMAIN heap : PathGetVersion(obj)
  \/ \E obj \in DOMAIN heap : PathIsImmutable(obj)
  \/ \E obj \in DOMAIN heap, asked \in Platforms : PathGetPlatformPath(obj, asked)
  \/ \E obj \in DOMAIN heap, c \in Constraints : PathGetLatestVersion(obj, c)
  \/ \E obj \in DOMAIN heap, c \in Constraints : FindLatestVersion(obj, c)

SpecPath == InitPath /\ [][NextPath]_vars

\* SpecMetrics: the metrics queue, its callers taking turns: they get the
\* queue, log to it, and start and stop its dispatching.  SpecQueueRace:
\* threads that get the queue at the same time, and log to it.
NextMetrics ==
  \/ \E t \in Threads : GetQueue(t)
  \/ \E q \in DOMAIN queues, n \in 0 .. MaxWorkersArg : StartDispatching(q, n)
  \/ \E q \in DOMAIN queues : StopDispatching(q)
  \/ \E q \in DOMAIN queues, metric \in Metrics : Log(q, metric)

SpecMetrics == Init /\ [][NextMetrics]_vars

NextQueueRace ==
  \/ \E t \in Threads : MBegin(t)
  \/ \E t \in Threads : MCheck(t)
  \/ \E t \in Threads : MCreate(t)
  \/ \E t \in Threads : MReturn(t)
  \/ \E q \in DOMAIN queues, metric \in Metrics : Log(q, metric)

SpecQueueRace == Init /\ [][NextQueueRace]_vars

\* SpecWorkers: callers that get the queue, log to it and start and stop
\* its dispatching, and the worker threads, every thread one step at a time.
\* A thread gets the queue once; up to MaxRunning workers are started.
\* the thread that starts and stops the dispatching
MainThread == 1

\* the metrics logged while workers run
WorkerMetrics == {"a", "b"}

NextWorkers ==
  \/ \E t \in Threads : mthr[t].got = 0 /\ GetQueue(t)
  \/ \E q \in DOMAIN queues, n \in 0 .. MaxWorkersArg :
       Len(workers) + n <= MaxRunning /\ StartDispatching(q, n)
  \/ \E q \in DOMAIN queues : StopDispatching(q)
  \/ \E t \in Threads, metric \in WorkerMetrics : LogAcquire(t, metric)
  \/ \E t \in Threads : LogRelease(t)
  \/ \E w \in DOMAIN workers : WTest(w)
  \/ \E w \in DOMAIN workers : WAcquire(w)
  \/ \E w \in DOMAIN workers : WTake(w)
  \/ \E w \in DOMAIN workers : WDispatch(w)
  \/ \E w \in DOMAIN workers : WWait(w)

SpecWorkers == Init /\ [][NextWorkers]_vars

\* SpecBatch: the process started with each batch size; a caller logs and
\* calls _get_metrics with and without a count, and one worker runs.
BatchSizes == {-1, 0, 1, 2, DISPATCH_BATCH_SIZE}

InitBatch == \E n \in BatchSizes : InitProcess("linux2", n)

NextBatch ==
  \/ GetQueue(MainThread)
  \/ \E metric \in Metrics : LogAcquire(MainThread, metric)
  \/ LogRelease(MainThread)
  \/ \E q \in DOMAIN queues, supplied \in BOOLEAN, count \in Counts :
       (supplied \/ count = 0) /\ GetMetrics(q, supplied, count)
  \/ \E q \in DOMAIN queues : StartDispatching(q, 1)
  \/ \E w \in DOMAIN workers : WTest(w)
  \/ \E w \in DOMAIN workers : WAcquire(w)
  \/ \E w \in DOMAIN workers : WTake(w)
  \/ \E w \in DOMAIN workers : WDispatch(w)
  \/ \E w \in DOMAIN workers : WWait(w)

SpecBatch == InitBatch /\ [][NextBatch]_vars

\* SpecCache: calls of the three functions of paths.py while time passes and
\* directories are removed behind them
NextCache ==
  \/ GetBundleCacheRoot
  \/ \E site \in Sites, project \in Projects, pc \in PipelineConfigs :
       GetConfigurationCacheRoot(site, project, pc)
  \/ \E site \in Sites, project \in Projects, pc \in PipelineConfigs :
       GetConfigurationBackup(site, project, pc)
  \/ Tick
  \/ \E d \in dirs : RemoveDir(d)

SpecCache == Init /\ [][NextCache]_vars

\* SpecHalt: one caller that gets the queue, logs to it and starts and stops
\* its dispatching while the workers run.  The interpreter runs every thread
\* that can run, so each step of a worker, and the release of a lock that a
\* caller of log() holds, is taken if it stays possible.  _lock is held for
\* the few statements between acquire() and release() and its holder then
\* runs without it, so a thread that waits in acquire() gets the lock.
NextHalt ==
  \/ mthr[MainThread].got = 0 /\ GetQueue(MainThread)
  \/ \E q \in DOMAIN queues, n \in 1 .. MaxWorkersArg :
       Len(workers) + n <= MaxRunning /\ StartDispatching(q, n)
  \/ \E q \in DOMAIN queues : StopDispatching(q)
  \/ \E metric \in WorkerMetrics : LogAcquire(MainThread, metric)
  \/ LogRelease(MainThread)
  \/ \E w \in DOMAIN workers : WTest(w)
  \/ \E w \in DOMAIN workers : WAcquire(w)
  \/ \E w \in DOMAIN workers : WTake(w)
  \/ \E w \in DOMAIN workers : WDispatch(w)
  \/ \E w \in DOMAIN workers : WWait(w)

WorkerRuns(w) ==
  /\ WF_vars(w \in DOMAIN workers /\ WTest(w))
  /\ SF_vars(w \in DOMAIN workers /\ WAcquire(w))
  /\ WF_vars(w \in DOMAIN workers /\ WTake(w))
  /\ WF_vars(w \in DOMAIN workers /\ WDispatch(w))
  /\ WF_vars(w \in DOMAIN workers /\ WWait(w))

SpecHalt ==
  /\ Init
  /\ [][NextHalt]_vars
  /\ WF_vars(LogRelease(MainThread))
  /\ \A w \in 1 .. MaxStarted : WorkerRuns(w)

(***************************************************************************)
(* Properties.                                                             *)
(***************************************************************************)
\* the objects constructed for a cache key
MadeFor(key) == {o \in DOMAIN heap : heap[o].key = key}

\* C1: after any sequence of constructor calls at most one descriptor object
\* has been constructed per cache key, the cache maps the key to it, and every
\* call that returned for that key returned that very object.
C1_OneInstancePerKey ==
  /\ \A i, j \in DOMAIN heap : heap[i].key = heap[j].key => i = j
  /\ \A p \in returned : InCache(_instances, p[1]) /\ _instances[p[1]] = p[2]
  /\ \A p, q \in returned : p[1] = q[1] => p[2] = q[2]

\* a constructor call found its key in the cache and returned the object
\* an earlier call had constructed
C1_Witness ==
  /\ last.op = "resolve"
  /\ last.created = 0
  /\ last.out = "returned"
  /\ <<heap[last.obj].key, last.obj>> \in returned
  /\ Len(heap) = 2

\* C2: when several threads construct the same, not yet cached, cache key at
\* the same time, one object is constructed for it and every caller gets
\* that object, under every interleaving.
C2_ConcurrentResolveOnce ==
  \A t, u \in Threads :
    (/\ thr[t].pc = "idle" /\ thr[t].got # 0
     /\ thr[u].pc = "idle" /\ thr[u].got # 0
     /\ heap[thr[t].got].key = heap[thr[u].got].key)
    => /\ thr[t].got = thr[u].got
       /\ Cardinality(MadeFor(heap[thr[t].got].key)) = 1

\* C3: a constructor call whose cache key already has an instance leaves
\* every field of every existing descriptor as it was (the later caller's
\* arguments are not applied).
C3_ExistingUnchanged ==
  [][(last'.op = "resolve" /\ last'.created = 0)
       => \A o \in DOMAIN heap : heap'[o] = heap[o]]_vars

\* C4: two constructor calls under one cache root whose location dicts hold
\* the same key/value pairs, inserted in whatever order, compute the same
\* cache key and return the same object.
C4_OrderIndependent ==
  \A p, q \in returned :
    (p[1][1] = q[1][1] /\ SameItems(p[1][2], q[1][2])) => (p[1] = q[1] /\ p[2] = q[2])

\* C5: once a descriptor's cached manifest is set (not None), no call and no
\* change of the disk changes it.
C5_ManifestKept ==
  [][\A o \in DOMAIN heap :
       heap[o].manifest \notin {None, Unset} => heap'[o].manifest = heap[o].manifest]_vars

\* C6: of two get_manifest() calls in a row on one descriptor, the first of
\* which returned, the second returns the same value and checks, downloads
\* and reads nothing: the metadata file is parsed at most once in all.
C6_ManifestReadOnce ==
  (/\ prev.op = "get_manifest" /\ prev.out = "returned"
   /\ last.op = "get_manifest" /\ last.obj = prev.obj)
  => /\ last.out = "returned"
     /\ last.ret = prev.ret
     /\ prev.reads + last.reads <= 1
     /\ last.checks = 0 /\ last.fetches = 0 /\ last.reads = 0

\* C7: two ensure_local() calls in a row on an uploaded-configuration
\* descriptor, the remote store working: the first fetches once and unpacks,
\* the second fetches nothing, and both return.  (The bundle folder of such
\* a descriptor exists only once a download_local() has put it there.)
C7_EnsureLocalTwice ==
  (/\ prev.op = "ensure_local" /\ prev.arg = "ok"
   /\ last.op = "ensure_local" /\ last.arg = "ok"
   /\ last.obj = prev.obj /\ heap[last.obj].cls = Uploaded)
  => /\ prev.out = "returned" /\ prev.fetches = 1 /\ prev.unzips = 1
     /\ last.out = "returned" /\ last.fetches = 0

\* C8: download_local() of an uploaded-configuration descriptor, the remote
\* fetch failing twice, fails with the fetch failure after two attempts and
\* writes no archive and unpacks nothing.
C8_RetryThenFail ==
  (/\ last.op = "download_local" /\ last.arg = "down"
   /\ heap[last.obj].cls = Uploaded)
  => /\ last.out = "FetchError"
     /\ last.fetches = 2
     /\ last.tmp = 0 /\ last.unzips = 0

\* C9: download_local() of an uploaded-configuration descriptor either
\* returns with the bundle in place at get_path() or fails; and after a call
\* that failed (both fetches failed, or the archive did not unpack) the next
\* ensure_local() fetches again.
C9_NoPartialSuccess ==
  /\ (/\ last.op = "download_local" /\ last.out = "returned"
      /\ heap[last.obj].cls = Uploaded)
     => DiskAt(disk, GetPath(heap[last.obj])) = Bundle
  /\ (/\ prev.op = "download_local" /\ prev.arg \in {"down", "badzip"}
      /\ last.op = "ensure_local" /\ last.obj = prev.obj
      /\ heap[last.obj].cls = Uploaded)
     => /\ prev.out \in {"FetchError", "UnzipError"}
        /\ last.fetches >= 1

\* C10: get_latest_version() of the uploaded-configuration backend with any
\* constraint pattern other than None, the empty string included, fails with
\* the unsupported-constraint error, asks the remote store nothing and
\* constructs no descriptor.
C10_ConstraintRejected ==
  (last.op = "get_latest_version" /\ last.arg # None)
  => /\ last.out = "ShotgunDeployError"
     /\ last.lookups = 0
     /\ last.created = 0

\* C11: a latest-version request without constraint that returns has asked
\* the remote store exactly once, and the descriptor it returns is the one
\* every direct constructor call for the same location (same cache root, same
\* key/value pairs) has returned.
C11_LatestIsRegistered ==
  (last.op = "get_latest_version" /\ last.arg = None /\ last.out = "returned")
  => /\ last.lookups = 1
     /\ _instances[heap[last.ret].key] = last.ret
     /\ heap[last.ret].project_id = heap[last.obj].project_id
     /\ heap[last.ret].name = heap[last.obj].name
     /\ \A p \in returned :
          (p[1][1] = heap[last.ret].key[1] /\ SameItems(p[1][2], heap[last.ret].key[2]))
          => p[2] = last.ret

\* C12: a latest-version request without constraint that does not return
\* (no record, or a record whose attachment is no uploaded file) fails with
\* the descriptor error, constructs nothing and leaves the registry as it was.
C12_LatestFailsCleanly ==
  [][\A obj \in DOMAIN heap, reply \in Replies :
       (/\ last'.op = "get_latest_version"
        /\ GetLatestVersion(obj, None, reply)
        /\ reply.link_type # "upload")
       => /\ last'.out = "ShotgunDeployError"
          /\ last'.lookups = 1
          /\ heap' = heap /\ _instances' = _instances]_vars

\* C13: find_latest_version(constraint) of a path descriptor returns the
\* descriptor itself, whatever the constraint.
C13_PathLatestIsSelf ==
  (last.op = "find_latest_version" /\ heap[last.obj].cls = Path)
  => (last.out = "returned" /\ last.ret = last.obj)

\* the path descriptors that constructor calls have returned
PathHeld == {o \in Held : heap[o].cls = Path}

\* the value a path descriptor's location dict gives for the path: that of
\* "path" when the key is there, otherwise that of the running platform's key
Chosen(loc) ==
  IF "path" \in Keys(loc) THEN Get(loc, "path") ELSE Get(loc, PlatformKey[platform])

\* C14: on each platform, get_path() of a path descriptor is the expanded
\* and normalised value of "path" when the location dict has that key, and
\* otherwise of the running platform's own key; and a constructor call fails
\* with the descriptor error exactly when the dict has neither key.
C14_PathKeyOrder ==
  /\ \A o \in PathHeld :
       /\ GetPath(heap[o]) = Normpath(platform, Expandvars(Chosen(heap[o].loc)))
       /\ {"path", PlatformKey[platform]} \cap Keys(heap[o].loc) # {}
  /\ (last.op = "resolve" /\ last.arg = Path)
       => (last.out = "ShotgunDeployError"
             <=> {"path", PlatformKey[platform]} \cap Keys(heap[last.obj].loc) = {})

\* a path descriptor was constructed from the running platform's key, the
\* dict holding other platforms' keys too
C14_Witness ==
  /\ last.op = "resolve" /\ last.arg = Path /\ last.out = "returned"
  /\ platform = "win32"
  /\ heap[last.obj].loc = LocPath3
  /\ GetPath(heap[last.obj]) = <<"d:", "\\", "foo", "\\", "bar", ".v2">>

\* C15 as stated: get_system_name() is the dict's 'name' whenever the key is
\* there, otherwise the last component of get_path() without its extension.
C15_NameWheneverPresent ==
  (last.op = "get_system_name" /\ heap[last.obj].cls = Path)
  => last.ret = (IF "name" \in Keys(heap[last.obj].loc)
                   THEN Get(heap[last.obj].loc, "name")
                   ELSE Splitext(Basename(platform, GetPath(heap[last.obj]))))

\* C15: get_system_name() of a path descriptor is the dict's 'name' when
\* the key is there and the name is not empty, otherwise the last component
\* of get_path() without its extension ("bar" for /tmp/foo/bar);
\* get_version() is "v0.0.0" and is_immutable() is false.
C15_PathNameVersion ==
  /\ (last.op = "get_system_name" /\ heap[last.obj].cls = Path)
       => /\ last.ret =
               (IF "name" \in Keys(heap[last.obj].loc)
                     /\ Get(heap[last.obj].loc, "name") # <<>>
                  THEN Get(heap[last.obj].loc, "name")
                  ELSE Splitext(Basename(platform, GetPath(heap[last.obj]))))
          /\ heap[last.obj].loc = LocPath => last.ret = <<"bar">>
          /\ heap[last.obj].loc = LocPathBoth => last.ret = <<"app">>
  /\ (last.op = "get_version" /\ heap[last.obj].cls = Path) => last.ret = "v0.0.0"
  /\ (last.op = "is_immutable" /\ heap[last.obj].cls = Path) => last.ret = FALSE

\* get_system_name() of a path descriptor whose dict has an empty name gave
\* the folder name
C15_Witness ==
  /\ last.op = "get_system_name"
  /\ heap[last.obj].loc = LocPathBoth
  /\ last.ret = <<"app">>

\* C16: get_platform_path(P) of a path descriptor is get_path() when P is
\* the running platform; for another platform it is the dict's value under
\* that platform's key, as given, and None when the dict has no such key.
C16_PlatformPath ==
  (last.op = "get_platform_path")
  => LET o   == heap[last.obj]
         key == PlatformKey[last.arg]
     IN /\ last.arg = platform => last.ret = GetPath(o)
        /\ (last.arg # platform /\ key \in Keys(o.loc)) => last.ret = Get(o.loc, key)
        /\ (last.arg # platform /\ key \notin Keys(o.loc)) <=> last.ret = NoPath

\* get_platform_path() was asked for another platform than the running one
\* and gave that platform's path as the dict holds it
C16_Witness ==
  /\ last.op = "get_platform_path"
  /\ platform = "darwin" /\ last.arg = "linux2"
  /\ heap[last.obj].loc = LocPath3
  /\ last.ret = PEnv
  /\ last.ret # GetPath(heap[last.obj])

\* C17: get_manifest() on a descriptor without cached manifest fetches the
\* content exactly when it is not local yet; it returns only after it has
\* read a metadata file that is there and parses; and when the content is
\* local and the file is missing or does not parse it fails with the
\* descriptor error.
C17_ManifestLocalThenRead ==
  [][\A obj \in DOMAIN heap, script \in Scripts :
       (/\ last'.op = "get_manifest"
        /\ GetManifest(obj, script, Bundle, FALSE)
        /\ heap[obj].manifest = None)
       => LET o    == heap[obj]
              file == DiskAt(disk', GetPath(o))
          IN /\ last'.fetches > 0 <=> DiskAt(disk, GetPath(o)) = "absent"
             /\ last'.out = "returned"
                  => (last'.reads = 1 /\ file \notin {"absent", "nofile", "bad"})
             /\ file \in {"nofile", "bad"} => last'.out = "ShotgunDeployError"]_vars

\* C18 as stated: a constructor call of the uploaded backend for a location
\* dict of its type fails with the descriptor error exactly when name, project_id or attachment_id is absent
\* from the location dict.
C18_ThreeMandatory ==
  (/\ last.op = "resolve" /\ last.arg = Uploaded
   /\ Get(heap[last.obj].loc, "type") = "shotgun_uploaded_configuration")
  => (last.out = "ShotgunDeployError"
        <=> ~({"name", "project_id", "attachment_id"} \subseteq Keys(heap[last.obj].loc)))

\* C18: a constructor call of the uploaded backend for a location dict of
\* its type fails with the descriptor error exactly when name or project_id is absent from the location dict; a
\* dict without attachment_id is accepted and gives a descriptor of version
\* "vNone"; and the call asks the remote store nothing and leaves the disk
\* untouched.
C18_TwoMandatory ==
  (/\ last.op = "resolve" /\ last.arg = Uploaded
   /\ Get(heap[last.obj].loc, "type") = "shotgun_uploaded_configuration")
  => LET o == heap[last.obj]
     IN /\ last.out = "ShotgunDeployError"
             <=> ~({"name", "project_id"} \subseteq Keys(o.loc))
        /\ ({"name", "project_id"} \subseteq Keys(o.loc) /\ "attachment_id" \notin Keys(o.loc))
             => (last.out = "returned" /\ UploadedGetVersion(o) = <<"v", None>>)
        /\ last.lookups = 0 /\ last.fetches = 0 /\ last.checks = 0 /\ last.reads = 0
        /\ DOMAIN disk = {}

\* a descriptor was constructed from a dict without attachment_id
C18_Witness ==
  /\ last.op = "resolve" /\ last.arg = Uploaded /\ last.out = "returned"
  /\ heap[last.obj].loc = LocUpNoAttachment
  /\ <<heap[last.obj].key, last.obj>> \in returned

\* C19: every MetricsDispatchQueueSingleton() call of the process, on
\* whatever thread and however the calls interleave, returns the same queue
\* object, so that what one caller has logged is in the queue every other
\* caller holds.
C19_OneQueue ==
  \A t, u \in Threads :
    (mthr[t].got # 0 /\ mthr[u].got # 0)
    => /\ mthr[t].got = mthr[u].got
       /\ queues[mthr[t].got].queue = queues[mthr[u].got].queue

\* the worker threads ever started for queue q, and those not told to halt
StartedFor(q) == {w \in DOMAIN workers : workers[w].queue = q}
RunningFor(q) == {w \in StartedFor(q) : ~workers[w].halted}

Pos(seq, m) ==
  IF \E i \in DOMAIN seq : seq[i] = m
    THEN CHOOSE i \in DOMAIN seq : seq[i] = m
    ELSE 0

\* C21: metrics are handed to _dispatch in the order they were logged: when
\* log(a) returned before log(b) was called and b has been handed to
\* _dispatch, a was handed to _dispatch before b or in the same list, however
\* many workers were started
C21_DispatchedInLoggedOrder ==
  \A i, j \in DOMAIN hist.logged :
    LET a == Pos(hist.handed, hist.logged[i])
        b == Pos(hist.handed, hist.logged[j])
    IN (i < j /\ b > 0) => (a > 0 /\ a < b)

\* a worker between two iterations of its loop, or out of it
Between(w) == workers[w].pc \in {"wait", "loop", "done"}

\* C22: stop_dispatching() sets the halt event of every worker started for
\* the queue and leaves dispatching false and the workers list empty; a
\* worker whose halt event is set starts no further iteration, so it calls
\* _get_metrics no more once the iteration it was in is over; and it
\* eventually leaves run()
C22_StopHaltsWorkers ==
  /\ [][\A q \in DOMAIN queues :
          (mlast'.op = "stop_dispatching" /\ StopDispatching(q))
            => /\ \A w \in StartedFor(q) : workers'[w].halted
               /\ ~queues'[q].dispatching
               /\ queues'[q].workers = <<>>]_vars
  /\ [][\A w \in DOMAIN workers :
          (workers[w].halted /\ Between(w))
            => (Between(w)' /\ workers'[w].metrics = workers[w].metrics)]_vars
  /\ \A w \in 1 .. MaxStarted :
       (w \in DOMAIN workers /\ workers[w].halted)
         ~> (w \in DOMAIN workers /\ workers[w].pc = "done")

\* stop_dispatching() has returned; one worker it signalled has left run(),
\* another is still in the iteration it was in, holding metrics
C22_Witness ==
  /\ mlast.op = "stop_dispatching"
  /\ \E w \in DOMAIN workers : workers[w].halted /\ workers[w].pc = "done"
  /\ \E w \in DOMAIN workers : workers[w].halted /\ workers[w].pc = "dispatch"

\* how often a metric stands in the deque of some queue
Queued(m) ==
  Cardinality({<<q, i>> \in (DOMAIN queues) \X (1 .. Cardinality(Metrics)) :
                 i \in DOMAIN queues[q].queue /\ queues[q].queue[i] = m})

\* the calls of log() and _get_metrics() in progress on a queue
InLog(q) == {t \in Threads : logging[t].queue = q}
InGetMetrics(q) ==
  {w \in DOMAIN workers : workers[w].queue = q /\ workers[w].pc \in {"get", "locked"}}

\* C30: while threads log and workers call _get_metrics at the same time,
\* every metric whose log() call has returned either is in the queue once or
\* has been returned by _get_metrics once, to one caller; no metric that was
\* not logged is returned; and the lock of a queue is free when no log() and
\* no _get_metrics() call on it is in progress
C30_EachMetricOnce ==
  /\ \A m \in Metrics :
       Queued(m) + hist.returned[m]
         = IF \E i \in DOMAIN hist.logged : hist.logged[i] = m THEN 1 ELSE 0
  /\ \A q \in DOMAIN queues :
       (InLog(q) = {} /\ InGetMetrics(q) = {}) => queues[q].lock = "free"

\* a worker holds the metric it was returned, a thread is inside log() with
\* the next one, and another worker waits for the lock in _get_metrics
C30_Witness ==
  /\ \E w \in DOMAIN workers : workers[w].metrics = <<"a">>
  /\ \E t \in Threads : logging[t].metric = "b"
  /\ \E w \in DOMAIN workers : workers[w].pc = "get"
  /\ hist.returned["a"] = 1

\* C26: _get_metrics(count) with a positive count returns the min(count,
\* pending) oldest metrics, oldest first; with no count, or a count above
\* the number pending, it returns all of them; on an empty queue it returns
\* an empty list; it returns in every case, and what stays in the queue
\* keeps its order
C26_GetMetricsFifo ==
  [][\A q \in DOMAIN queues, supplied \in BOOLEAN, count \in Counts :
       (/\ mlast'.op = "_get_metrics"
        /\ GetMetrics(q, supplied, count)
        /\ supplied => count > 0)
       => LET pending == queues[q].queue
              n       == IF ~supplied \/ count > Len(pending) THEN Len(pending) ELSE count
          IN /\ Len(mlast'.ret) = n
             /\ \A i \in 1 .. n : mlast'.ret[i] = pending[i]
             /\ Len(queues'[q].queue) = Len(pending) - n
             /\ \A i \in 1 .. Len(pending) - n : queues'[q].queue[i] = pending[n + i]]_vars

\* _get_metrics(1) on three pending metrics returned the oldest one and left
\* the other two
C26_Witness ==
  /\ mlast.op = "_get_metrics"
  /\ mlast.arg = 1
  /\ Len(mlast.ret) = 1
  /\ Len(queues[mlast.queue].queue) = 2

\* C27: an iteration of a worker whose DISPATCH_BATCH_SIZE is n > 0 takes at
\* most n metrics to dispatch, and an iteration of a worker whose batch size
\* is zero or negative takes every pending metric to dispatch
C27_BatchSizeBounds ==
  [][\A w \in DOMAIN workers :
       WTake(w)
       => LET pending == queues[workers[w].queue].queue
          IN /\ batch_size > 0 => Len(workers'[w].metrics) <= batch_size
             /\ (batch_size <= 0 /\ pending # <<>>)
                  => (workers'[w].pc = "dispatch" /\ workers'[w].metrics = pending)]_vars

\* the call before was this call, and the disk was left alone since
Again(op, args) == plast.op = op /\ plast.args = args

\* what a call of a cache-path function must leave: the directory it returns
\* exists, and a repeated call returns the same path and leaves the disk as
\* it was
Ensured(again) ==
  /\ plast'.ret \in dirs'
  /\ again => (plast'.ret = plast.ret /\ dirs' = dirs)

\* C23: get_bundle_cache_root, get_configuration_cache_root and
\* get_configuration_backup return a directory that exists, and calling one
\* again with the same arguments (get_configuration_backup: in the same
\* second) returns the same path and changes nothing on disk
C23_CachePathsIdempotent ==
  [][/\ GetBundleCacheRoot => Ensured(Again("get_bundle_cache_root", <<>>))
     /\ \A site \in Sites, project \in Projects, pc \in PipelineConfigs :
          /\ GetConfigurationCacheRoot(site, project, pc)
               => Ensured(Again("get_configuration_cache_root", <<site, project, pc>>))
          /\ GetConfigurationBackup(site, project, pc)
               => Ensured(/\ Again("get_configuration_backup", <<site, project, pc>>)
                          /\ plast.at \div TicksPerSecond = clock \div TicksPerSecond)]_vars

\* get_configuration_backup was called twice in one second, half a second
\* apart, and its directory is there
C23_Witness ==
  /\ plast.op = "get_configuration_backup"
  /\ plast.since = 2
  /\ plast.at = 3
  /\ plast.ret \in dirs

\* C24: download_local() of an uploaded-configuration descriptor whose
\* content is not local, the first fetch failing and the second succeeding,
\* returns: it has made two fetch attempts, written one temporary archive and
\* unpacked it once into get_path()
C24_RetryThenSucceed ==
  [][\A obj \in DOMAIN heap :
       (/\ last'.op = "download_local"
        /\ DownloadLocal(obj, "flaky", Bundle, FALSE)
        /\ heap[obj].cls = Uploaded
        /\ DiskAt(disk, GetPath(heap[obj])) = "absent")
       => /\ last'.out = "returned"
          /\ last'.fetches = 2
          /\ last'.tmp = 1 /\ last'.unzips = 1
          /\ DiskAt(disk', GetPath(heap[obj])) = Bundle]_vars

\* C25: download_local() of an uploaded-configuration descriptor whose
\* bundle folder is in the cache already returns and has done nothing: no
\* fetch attempt, no directory made, no temporary file, no unpack
C25_DownloadLocalNoOp ==
  [][\A obj \in DOMAIN heap, script \in Scripts :
       (/\ last'.op = "download_local"
        /\ DownloadLocal(obj, script, Bundle, FALSE)
        /\ heap[obj].cls = Uploaded
        /\ DiskAt(disk, GetPath(heap[obj])) # "absent")
       => /\ last'.out = "returned"
          /\ last'.fetches = 0
          /\ last'.tmp = 0 /\ last'.unzips = 0
          /\ disk' = disk]_vars

\* C28: a constructor call that fails with the descriptor error, its
\* location dict not valid for the backend, leaves _instances as it was: no
\* entry is stored for the cache key of the failing call
C28_FailedResolveNotStored ==
  [][(last'.op = "resolve" /\ last'.out = "ShotgunDeployError")
       => _instances' = _instances]_vars

\* C29: the object a constructor call returns was created by the class the
\* call was made through, whatever calls were made before through other
\* classes with the same cache root and location dict
C29_ReturnedIsOfClassAsked ==
  (last.op = "resolve" /\ last.out = "returned")
    => heap[last.obj].cls = last.arg

====
